---- MODULE Spec2Model ----
(***************************************************************************)
(* Model of oskhar/todo-kanban: the NestJS task API (TaskController,       *)
(* TaskService over a TypeORM repository of Task rows) and the Vue client  *)
(* (App.vue) that renders the three status columns.                        *)
(*                                                                         *)
(* Spec            the API alone: one action per controller handler, each  *)
(*                 handler run to completion, with arbitrary bodies.       *)
(* ServiceSpec     the service's calls interleaved at their awaits.        *)
(* ClientSpec      one browser client driving the same API over a network  *)
(*                 that may delay, reorder and lose messages.              *)
(* FairClientSpec  ClientSpec with fewer user requests and weak fairness   *)
(*                 of the mount, the network and the script.               *)
(*                                                                         *)
(* JavaScript values that may be undefined are modelled as sets: {} is     *)
(* undefined and {v} is the value v.  Strings are sequences of characters. *)
(* A deletedAt of 0 is SQL NULL; a positive deletedAt is a timestamp.      *)
(* The createdAt / updatedAt columns are not modelled.                     *)
(***************************************************************************)
EXTENDS Naturals, Sequences, FiniteSets, Bags, TLC

\* ------------------------------------------------------------------ bounds
MaxTasks == 2       \* rows the table may hold (uuids available)
MaxClock == 2       \* soft-delete statements executed (database clock ticks)
MaxTitle == 1       \* length of the short request titles that are enumerated
MaxGestures == 4       \* requests the user starts (add, delete, move to another column)
MaxCalls == 2       \* async calls the client may have in progress at once
MaxFairGestures == 3   \* requests the user starts in the runs checked for liveness
MaxPending == 2     \* updateStatus calls that may stand between findOne and save

\* ------------------------------------------------------- program constants
TitleColumnLength == 255
SchemaMaxTitle == 255
SchemaMinTitle == 1

\* ------------------------------------------------------------ value domains
TaskStatus == {"todo", "progress", "done"}
DefaultStatus == "todo"

Undef == {}
Some(v) == {v}
Get(o) == CHOOSE v \in o : TRUE
IsDef(o) == o # {}

Chars == {" ", "a"}
LongTitle == [i \in 1..(TitleColumnLength + 1) |-> "a"]
ShortTitles == UNION {[1..n -> Chars] : n \in 0..MaxTitle}
Titles == ShortTitles \cup {LongTitle}

\* uuids are 1..MaxTasks; 0 stands for a path parameter that is no uuid
Ids == 1..MaxTasks
ParamIds == 0..MaxTasks
IsUUID(id) == id \in Ids

\* String.prototype.trim
RECURSIVE TrimStart(_)
TrimStart(s) == IF s # <<>> /\ Head(s) = " " THEN TrimStart(Tail(s)) ELSE s
RECURSIVE TrimEnd(_)
TrimEnd(s) ==
    IF s # <<>> /\ s[Len(s)] = " " THEN TrimEnd(SubSeq(s, 1, Len(s) - 1)) ELSE s
Trim(s) == TrimEnd(TrimStart(s))

\* a Task object with every property undefined
NoEntity == [id |-> Undef, title |-> Undef, status |-> Undef, deletedAt |-> Undef]
\* the Task object a row is hydrated into
Hydrate(row) ==
    [id |-> Some(row.id), title |-> Some(row.title), status |-> Some(row.status),
     deletedAt |-> Some(row.deletedAt)]

VARIABLES
    rows,       \* the tasks table: uuid -> [id, title, status, deletedAt]
    now,        \* the database clock
    last,       \* the last HTTP exchange served, request and response
    live,       \* uuid -> status, as told by the successful responses
    pending,    \* ServiceSpec: the updateStatus calls between findOne and save
    todoTasks, progressTasks, doneTasks,    \* the client's three lists
    newTaskTitle, isLoading, errorMessage,  \* the client's refs
    mounted,    \* whether onMounted has run
    gestures,   \* requests the user has started
    lastFetch,  \* how the last fetchTasks to complete ended: "none", "ok", "failed"
    calls,      \* the client's async calls in progress (a bag)
    event       \* the last step the client's script has run

serverVars == <<rows, now, last, live, pending>>
clientVars == <<todoTasks, progressTasks, doneTasks, newTaskTitle, isLoading,
                errorMessage, mounted, gestures, lastFetch, calls, event>>
vars == <<rows, now, last, live, pending, todoTasks, progressTasks, doneTasks,
          newTaskTitle, isLoading, errorMessage, mounted, gestures, lastFetch, calls,
          event>>

\* ---------------------------------------------------------------- zod schemas
\* z.string().min(1).max(255).trim(): the checks run in the order written, so
\* the length checks see the untrimmed string and trim then rewrites it.
CreateTaskSchema(body) ==
    IF ~IsDef(body.title) THEN [success |-> FALSE, title |-> Undef]
    ELSE IF Len(Get(body.title)) < SchemaMinTitle THEN [success |-> FALSE, title |-> Undef]
    ELSE IF Len(Get(body.title)) > SchemaMaxTitle THEN [success |-> FALSE, title |-> Undef]
    ELSE [success |-> TRUE, title |-> Some(Trim(Get(body.title)))]

\* z.nativeEnum(TaskStatus)
UpdateTaskSchema(body) ==
    IF IsDef(body.status) /\ Get(body.status) \in TaskStatus
    THEN [success |-> TRUE, status |-> body.status]
    ELSE [success |-> FALSE, status |-> Undef]

\* ------------------------------------------------------- TypeORM repository
\* Column constraints of the tasks table, as the entity declares them.
TitleColumnOk(t) == Len(t) <= TitleColumnLength
StatusColumnOk(s) == s \in TaskStatus

\* repository.create({ title }): a new Task object holding only what was given
RepoCreate(title) == [NoEntity EXCEPT !.title = title]

\* repository.find(): the rows that are not soft-deleted, in an order the
\* database chooses; the operator is the set of the possible results.
\* mutant: find() without the filter on deletedAt
LiveIdsWithDeleted(rs) == DOMAIN rs
LiveIds(rs) == {i \in DOMAIN rs : rs[i].deletedAt = 0}
Orders(S) == {f \in [1..Cardinality(S) -> S] : \A i, j \in DOMAIN f : f[i] = f[j] => i = j}
RepoFind(rs) == {[i \in DOMAIN f |-> rs[f[i]]] : f \in Orders(LiveIds(rs))}

\* mutant: findOneBy() without the filter on deletedAt
RepoFindOneByWithDeleted(rs, id) ==
    IF id \in DOMAIN rs THEN Some(Hydrate(rs[id])) ELSE {}

\* repository.findOneBy({ id }): null ({}) for a missing or soft-deleted row
RepoFindOneBy(rs, id) ==
    IF id \in DOMAIN rs /\ rs[id].deletedAt = 0 THEN Some(Hydrate(rs[id])) ELSE {}

\* mutant: an INSERT that writes back the generated id but not the defaults
RepoInsertNoDefaults(rs, entity, uuid) ==
    LET ok == IsDef(entity.title) /\ TitleColumnOk(Get(entity.title))
        row == [id |-> uuid, title |-> Get(entity.title), status |-> DefaultStatus,
                deletedAt |-> 0]
    IN IF ok THEN [ok |-> TRUE, rows |-> (uuid :> row) @@ rs,
                   entity |-> [entity EXCEPT !.id = Some(uuid)]]
       ELSE [ok |-> FALSE, rows |-> rs, entity |-> entity]

\* The INSERT of save(): title has no default and is NOT NULL, status defaults
\* to todo, deletedAt to NULL, id is generated (uuid); the generated and
\* defaulted columns are written back into the entity.
RepoInsert(rs, entity, uuid) ==
    LET status == IF IsDef(entity.status) THEN Get(entity.status) ELSE DefaultStatus
        ok == /\ IsDef(entity.title)
              /\ TitleColumnOk(Get(entity.title))
              /\ StatusColumnOk(status)
        row == [id |-> uuid, title |-> Get(entity.title), status |-> status,
                deletedAt |-> 0]
    IN IF ok THEN [ok |-> TRUE, rows |-> (uuid :> row) @@ rs, entity |-> Hydrate(row)]
       ELSE [ok |-> FALSE, rows |-> rs, entity |-> entity]

\* The UPDATE of save(): the stored row is loaded (soft-deleted rows included),
\* and every column whose entity value is defined and differs is written.
RepoUpdate(rs, entity) ==
    LET id == Get(entity.id)
        old == rs[id]
        new == [id |-> id,
                title |-> IF IsDef(entity.title) THEN Get(entity.title) ELSE old.title,
                status |-> IF IsDef(entity.status) THEN Get(entity.status) ELSE old.status,
                deletedAt |-> IF IsDef(entity.deletedAt) THEN Get(entity.deletedAt)
                              ELSE old.deletedAt]
        ok == TitleColumnOk(new.title) /\ StatusColumnOk(new.status)
    IN IF ok THEN [ok |-> TRUE, rows |-> [rs EXCEPT ![id] = new], entity |-> entity]
       ELSE [ok |-> FALSE, rows |-> rs, entity |-> entity]

\* repository.save(entity)
RepoSave(rs, entity, uuid) ==
    IF IsDef(entity.id) /\ Get(entity.id) \in DOMAIN rs
    THEN RepoUpdate(rs, entity)
    ELSE RepoInsert(rs, entity, uuid)

\* mutant: delete(id) in place of softDelete(id)
RepoHardDelete(rs, id, time) ==
    IF id \in DOMAIN rs
    THEN [affected |-> 1, rows |-> [i \in DOMAIN rs \ {id} |-> rs[i]]]
    ELSE [affected |-> 0, rows |-> rs]

\* repository.softDelete(id): UPDATE tasks SET deletedAt = <now> WHERE id = :id
RepoSoftDelete(rs, id, time) ==
    IF id \in DOMAIN rs
    THEN [affected |-> 1, rows |-> [rs EXCEPT ![id].deletedAt = time]]
    ELSE [affected |-> 0, rows |-> rs]

\* ------------------------------------------------------------- TaskService
\* Each operator is the outcome of the call: threw is "" when it returned.
ServiceCreate(rs, dto, uuid) ==
    LET task == RepoCreate(dto.title)
        saved == RepoSave(rs, task, uuid)
    IN IF saved.ok THEN [threw |-> "", rows |-> saved.rows, ret |-> saved.entity]
       ELSE [threw |-> "QueryFailedError", rows |-> rs, ret |-> NoEntity]

ServiceFindAll(rs) == RepoFind(rs)

ServiceFindOne(rs, id) ==
    LET task == RepoFindOneBy(rs, id)
    IN IF task = {} THEN [threw |-> "NotFoundException", task |-> NoEntity]
       ELSE [threw |-> "", task |-> Get(task)]

\* mutant: updateStatus that returns the changed task without saving it
ServiceUpdateStatusUnsaved(rs, id, status) ==
    LET found == ServiceFindOne(rs, id)
    IN IF found.threw # "" THEN [threw |-> found.threw, rows |-> rs, ret |-> NoEntity]
       ELSE [threw |-> "", rows |-> rs, ret |-> [found.task EXCEPT !.status = status]]

ServiceUpdateStatus(rs, id, status) ==
    LET found == ServiceFindOne(rs, id)
        task == [found.task EXCEPT !.status = status]
        saved == RepoSave(rs, task, id)
    IN IF found.threw # "" THEN [threw |-> found.threw, rows |-> rs, ret |-> NoEntity]
       ELSE IF ~saved.ok THEN [threw |-> "QueryFailedError", rows |-> rs, ret |-> NoEntity]
       ELSE [threw |-> "", rows |-> saved.rows, ret |-> task]

\* mutant: remove that does not look at result.affected
ServiceRemoveUnchecked(rs, id, time) ==
    [threw |-> "", rows |-> RepoSoftDelete(rs, id, time).rows]

ServiceRemove(rs, id, time) ==
    LET result == RepoSoftDelete(rs, id, time)
    IN IF result.affected = 0
       THEN [threw |-> "NotFoundException", rows |-> result.rows]
       ELSE [threw |-> "", rows |-> result.rows]

\* ----------------------------------------------------------- TaskController
\* Nest's mapping of an exception to the response status.
HttpError(threw) ==
    IF threw = "NotFoundException" THEN "NotFound" ELSE "InternalServerError"

NoRequest ==
    [op |-> "none", id |-> 0, title |-> Undef, status |-> Undef, called |-> FALSE,
     code |-> "", ret |-> NoEntity, list |-> <<>>]

\* POST /tasks: the body goes to the service as it arrived.
PostTasks(rs, body, uuid) ==
    LET r == ServiceCreate(rs, body, uuid)
    IN [rows |-> r.rows,
        res |-> [NoRequest EXCEPT !.op = "createTask", !.title = body.title,
                    !.called = TRUE,
                    !.code = IF r.threw = "" THEN "Created" ELSE HttpError(r.threw),
                    !.ret = r.ret]]

\* GET /tasks
GetTasksResponses(rs) ==
    {[NoRequest EXCEPT !.op = "getTasks", !.called = TRUE, !.code = "OK", !.list = l] :
        l \in ServiceFindAll(rs)}

\* PATCH /tasks/:id: ParseUUIDPipe guards the id; the body's status goes to the
\* service as it arrived.
PatchTask(rs, id, body) ==
    LET r == ServiceUpdateStatus(rs, id, body.status)
        req == [NoRequest EXCEPT !.op = "updateTaskStatus", !.id = id,
                   !.status = body.status]
    IN IF ~IsUUID(id) THEN [rows |-> rs, res |-> [req EXCEPT !.code = "BadRequest"]]
       ELSE [rows |-> r.rows,
             res |-> [req EXCEPT !.called = TRUE,
                         !.code = IF r.threw = "" THEN "OK" ELSE HttpError(r.threw),
                         !.ret = r.ret]]

\* DELETE /tasks/:id
DeleteTaskById(rs, id, time) ==
    LET r == ServiceRemove(rs, id, time)
        req == [NoRequest EXCEPT !.op = "deleteTask", !.id = id]
    IN IF ~IsUUID(id) THEN [rows |-> rs, res |-> [req EXCEPT !.code = "BadRequest"]]
       ELSE [rows |-> r.rows,
             res |-> [req EXCEPT !.called = TRUE,
                         !.code = IF r.threw = "" THEN "NoContent" ELSE HttpError(r.threw)]]

\* What a client that trusts the responses knows of the live tasks.
Learn(lv, res) ==
    IF res.op = "createTask" /\ res.code = "Created"
        THEN (Get(res.ret.id) :> DefaultStatus) @@ lv
    ELSE IF res.op = "updateTaskStatus" /\ res.code = "OK" /\ IsDef(res.status)
        THEN [lv EXCEPT ![res.id] = Get(res.status)]
    ELSE IF res.op = "deleteTask" /\ res.code = "NoContent"
        THEN [i \in DOMAIN lv \ {res.id} |-> lv[i]]
    ELSE lv

\* ------------------------------------------------------------ request bodies
CreateBodies == {[title |-> t] : t \in {Undef} \cup {Some(s) : s \in Titles}}
UpdateBodies == {[status |-> s] : s \in {Undef} \cup {Some(x) : x \in TaskStatus \cup {"bogus"}}}


\* ------------------------------------------------------------------ App.vue
\* errorMessage is null ({}) or a message; the texts are not told apart.
\* An async call of the script that awaits a response: fn is the function the
\* user or the mount started, req the request it awaits, net the state of that
\* request ("sent", then "ok" / "notok" once answered, or "error" once lost),
\* caught whether a catch block of fn has run before this request was sent.
Idle ==
    [fn |-> "idle", req |-> "", id |-> 0, title |-> <<>>, status |-> "",
     net |-> "", data |-> <<>>, caught |-> FALSE]
NoEvent == [fn |-> "none", step |-> "", ok |-> FALSE]

Request(fn, req) == [Idle EXCEPT !.fn = fn, !.req = req, !.net = "sent"]
Answered(call) == call.net \in {"ok", "notok", "error"}
InProgress == BagToSet(calls)
CanStart == BagCardinality(calls) < MaxCalls
Start(call) == calls (+) SetToBag({call})
Finish(call) == calls (-) SetToBag({call})
Continue(call, next) == Finish(call) (+) SetToBag({next})

Board == [todo |-> todoTasks, progress |-> progressTasks, done |-> doneTasks]
\* mutant: fetchTasks that does not empty the lists before it fills them
BoardNotEmptied == [todo |-> todoTasks, progress |-> progressTasks, done |-> doneTasks]
\* todoTasks.value = []; progressTasks.value = []; doneTasks.value = []
EmptyBoard == [todo |-> <<>>, progress |-> <<>>, done |-> <<>>]
Columns == <<"todo", "progress", "done">>

\* mutant: the forEach without its last branch
RECURSIVE PushByStatusNoDone(_, _)
PushByStatusNoDone(tasks, board) ==
    IF tasks = <<>> THEN board
    ELSE LET task == Head(tasks)
             next == IF task.status = "todo"
                        THEN [board EXCEPT !.todo = Append(@, task)]
                     ELSE IF task.status = "progress"
                        THEN [board EXCEPT !.progress = Append(@, task)]
                     ELSE board
         IN PushByStatusNoDone(Tail(tasks), next)

\* tasks.forEach((task) => { if ... push ... else if ... })
RECURSIVE PushByStatus(_, _)
PushByStatus(tasks, board) ==
    IF tasks = <<>> THEN board
    ELSE LET task == Head(tasks)
             next == IF task.status = "todo"
                        THEN [board EXCEPT !.todo = Append(@, task)]
                     ELSE IF task.status = "progress"
                        THEN [board EXCEPT !.progress = Append(@, task)]
                     ELSE IF task.status = "done"
                        THEN [board EXCEPT !.done = Append(@, task)]
                     ELSE board
         IN PushByStatus(Tail(tasks), next)

\* list.findIndex((task) => task.id === id), 0 for -1
FindIndex(list, id) ==
    IF \E i \in 1..Len(list) : list[i].id = id
    THEN CHOOSE i \in 1..Len(list) :
            list[i].id = id /\ \A j \in 1..(i - 1) : list[j].id # id
    ELSE 0

\* list.splice(index, 1)
Splice(list, index) == SubSeq(list, 1, index - 1) \o SubSeq(list, index + 1, Len(list))

\* list.splice(index, 0, task)
InsertAt(list, index, task) ==
    SubSeq(list, 1, index - 1) \o <<task>> \o SubSeq(list, index, Len(list))

\* for (const list of lists) { findIndex; if found: splice, break }
RECURSIVE SpliceFirst(_, _, _)
SpliceFirst(board, id, k) ==
    IF k > Len(Columns) THEN board
    ELSE LET index == FindIndex(board[Columns[k]], id)
         IN IF index # 0
            THEN [board EXCEPT ![Columns[k]] = Splice(@, index)]
            ELSE SpliceFirst(board, id, k + 1)

\* ------------------------------------------------------------------- Spec
EmptyRows == [i \in {} |-> 0]

ServerInit ==
    /\ rows = EmptyRows
    /\ now = 0
    /\ last = NoRequest
    /\ live = EmptyRows
    /\ pending = EmptyBag

\* App.vue after <script setup> has run and before onMounted
ClientIdle ==
    /\ todoTasks = <<>>
    /\ progressTasks = <<>>
    /\ doneTasks = <<>>
    /\ newTaskTitle = <<>>
    /\ isLoading = TRUE
    /\ errorMessage = {}
    /\ mounted = FALSE
    /\ gestures = 0
    /\ lastFetch = "none"
    /\ calls = EmptyBag
    /\ event = NoEvent

Init == ServerInit /\ ClientIdle

CreateTask(body) ==
    /\ Cardinality(DOMAIN rows) < MaxTasks
    /\ \E uuid \in Ids \ DOMAIN rows :
         LET r == PostTasks(rows, body, uuid)
         IN /\ rows' = r.rows
            /\ last' = r.res
            /\ live' = Learn(live, r.res)
    /\ UNCHANGED <<now, pending, clientVars>>

GetTasks ==
    /\ \E res \in GetTasksResponses(rows) : last' = res
    /\ UNCHANGED <<rows, now, live, pending, clientVars>>

UpdateTaskStatus(id, body) ==
    /\ LET r == PatchTask(rows, id, body)
       IN /\ rows' = r.rows
          /\ last' = r.res
          /\ live' = Learn(live, r.res)
    /\ UNCHANGED <<now, pending, clientVars>>

DeleteTask(id) ==
    /\ now < MaxClock
    /\ LET r == DeleteTaskById(rows, id, now + 1)
       IN /\ rows' = r.rows
          /\ last' = r.res
          /\ live' = Learn(live, r.res)
    /\ now' = now + 1
    /\ UNCHANGED <<pending, clientVars>>

Next ==
    \/ \E body \in CreateBodies : CreateTask(body)
    \/ GetTasks
    \/ \E id \in ParamIds, body \in UpdateBodies : UpdateTaskStatus(id, body)
    \/ \E id \in ParamIds : DeleteTask(id)

Spec == Init /\ [][Next]_vars

\* ------------------------------------------------------------- ClientSpec
SetBoard(board) ==
    /\ todoTasks' = board.todo
    /\ progressTasks' = board.progress
    /\ doneTasks' = board.done

Ran(fn, step, ok) == [fn |-> fn, step |-> step, ok |-> ok]

\* fetchTasks() up to its await: errorMessage.value = null, whatever it held
FetchTasksBegin(message) == {}

\* The board and the form are usable once the loading indicator is gone.
Usable == mounted /\ ~isLoading

\* onMounted: fetchTasks() begins: errorMessage = null, then GET /tasks
Mount ==
    /\ ~mounted
    /\ mounted' = TRUE
    /\ UNCHANGED gestures
    /\ errorMessage' = FetchTasksBegin(errorMessage)
    /\ calls' = Start(Request("fetchTasks", "GET"))
    /\ event' = Ran("fetchTasks", "start", TRUE)
    /\ UNCHANGED <<serverVars, lastFetch, todoTasks, progressTasks, doneTasks,
                   newTaskTitle, isLoading>>

\* v-model="newTaskTitle"
TypeTitle(text) ==
    /\ Usable
    /\ text # newTaskTitle
    /\ newTaskTitle' = text
    /\ event' = Ran("input", "", TRUE)
    /\ UNCHANGED <<serverVars, lastFetch, todoTasks, progressTasks, doneTasks, isLoading,
                   errorMessage, mounted, gestures, calls>>

\* addTask() up to its await: POST /tasks with the trimmed title
AddTask ==
    /\ Usable
    /\ Trim(newTaskTitle) # <<>>
    /\ CanStart
    /\ gestures < MaxGestures /\ gestures' = gestures + 1
    /\ calls' = Start([Request("addTask", "POST") EXCEPT !.title = Trim(newTaskTitle)])
    /\ event' = Ran("addTask", "start", TRUE)
    /\ UNCHANGED <<serverVars, lastFetch, todoTasks, progressTasks, doneTasks,
                   newTaskTitle, isLoading, errorMessage, mounted>>

\* deleteTask(task) up to its await: DELETE /tasks/:id
DeleteTaskClick(column, index) ==
    /\ Usable
    /\ index \in 1..Len(Board[column])
    /\ CanStart
    /\ gestures < MaxGestures /\ gestures' = gestures + 1
    /\ calls' = Start([Request("deleteTask", "DELETE") EXCEPT
                          !.id = Board[column][index].id])
    /\ event' = Ran("deleteTask", "start", TRUE)
    /\ UNCHANGED <<serverVars, lastFetch, todoTasks, progressTasks, doneTasks,
                   newTaskTitle, isLoading, errorMessage, mounted>>

\* mutant: handleTaskMove without the early return for a reorder
HandleTaskMoveAlwaysPatch(originalBoardId, index, newBoardId, place) ==
    /\ Usable
    /\ index \in 1..Len(Board[originalBoardId])
    /\ LET task == Board[originalBoardId][index]
           lifted == [Board EXCEPT ![originalBoardId] = Splice(@, index)]
       IN /\ place \in 1..(Len(lifted[newBoardId]) + 1)
          /\ SetBoard([lifted EXCEPT ![newBoardId] = InsertAt(@, place, task)])
          /\ CanStart
          /\ gestures < MaxGestures /\ gestures' = gestures + 1
          /\ calls' = Start([Request("handleTaskMove", "PATCH") EXCEPT
                                !.id = task.id, !.status = newBoardId])
          /\ event' = Ran("handleTaskMove", "start", TRUE)
    /\ UNCHANGED <<serverVars, lastFetch, newTaskTitle, isLoading, errorMessage, mounted>>

\* A drag: the library moves the task object from one list to a place in
\* another (or the same) list, then the 'end' event runs handleTaskMove up to
\* its await: nothing for a reorder, else PATCH /tasks/:id { status: column }.
HandleTaskMove(originalBoardId, index, newBoardId, place) ==
    /\ Usable
    /\ index \in 1..Len(Board[originalBoardId])
    /\ LET task == Board[originalBoardId][index]
           lifted == [Board EXCEPT ![originalBoardId] = Splice(@, index)]
       IN /\ place \in 1..(Len(lifted[newBoardId]) + 1)
          /\ SetBoard([lifted EXCEPT ![newBoardId] = InsertAt(@, place, task)])
          /\ IF originalBoardId = newBoardId
             THEN /\ event' = Ran("handleTaskMove", "reorder", TRUE)
                  /\ UNCHANGED <<calls, gestures>>
             ELSE /\ CanStart
                  /\ gestures < MaxGestures /\ gestures' = gestures + 1
                  /\ calls' = Start([Request("handleTaskMove", "PATCH") EXCEPT
                                        !.id = task.id, !.status = newBoardId])
                  /\ event' = Ran("handleTaskMove", "start", TRUE)
    /\ UNCHANGED <<serverVars, lastFetch, newTaskTitle, isLoading, errorMessage, mounted>>

\* The server serves a request of the client.
Reply(call, res, codeOk) ==
    [call EXCEPT !.net = IF res.code = codeOk THEN "ok" ELSE "notok", !.data = res.list]

ServeGet(c) ==
    /\ c.net = "sent" /\ c.req = "GET"
    /\ \E res \in GetTasksResponses(rows) :
         calls' = Continue(c, Reply(c, res, "OK"))
    /\ UNCHANGED <<serverVars, lastFetch, todoTasks, progressTasks, doneTasks,
                   newTaskTitle, isLoading, errorMessage, mounted, gestures, event>>

ServePost(c) ==
    /\ c.net = "sent" /\ c.req = "POST"
    /\ Cardinality(DOMAIN rows) < MaxTasks
    /\ \E uuid \in Ids \ DOMAIN rows :
         LET r == PostTasks(rows, [title |-> Some(c.title)], uuid)
         IN /\ rows' = r.rows
            /\ calls' = Continue(c, Reply(c, r.res, "Created"))
    /\ UNCHANGED <<now, last, live, pending, lastFetch, todoTasks, progressTasks,
                   doneTasks, newTaskTitle, isLoading, errorMessage, mounted, gestures, event>>

ServePatch(c) ==
    /\ c.net = "sent" /\ c.req = "PATCH"
    /\ LET r == PatchTask(rows, c.id, [status |-> Some(c.status)])
       IN /\ rows' = r.rows
          /\ calls' = Continue(c, Reply(c, r.res, "OK"))
    /\ UNCHANGED <<now, last, live, pending, lastFetch, todoTasks, progressTasks,
                   doneTasks, newTaskTitle, isLoading, errorMessage, mounted, gestures, event>>

ServeDelete(c) ==
    /\ c.net = "sent" /\ c.req = "DELETE"
    /\ now < MaxClock
    /\ LET r == DeleteTaskById(rows, c.id, now + 1)
       IN /\ rows' = r.rows
          /\ calls' = Continue(c, Reply(c, r.res, "NoContent"))
    /\ now' = now + 1
    /\ UNCHANGED <<last, live, pending, lastFetch, todoTasks, progressTasks, doneTasks,
                   newTaskTitle, isLoading, errorMessage, mounted, gestures, event>>

\* The request or its response is lost: fetch() rejects.
NetError(c) ==
    /\ c.net \in {"sent", "ok", "notok"}
    /\ calls' = Continue(c, [c EXCEPT !.net = "error", !.data = <<>>])
    /\ UNCHANGED <<serverVars, lastFetch, todoTasks, progressTasks, doneTasks,
                   newTaskTitle, isLoading, errorMessage, mounted, gestures, event>>

\* mutant: fetchTasks that takes the loading indicator down on success only
FetchTasksResumeKeepLoading(c) ==
    /\ c.req = "GET" /\ Answered(c)
    /\ IF c.net = "ok"
       THEN /\ SetBoard(PushByStatus(c.data, EmptyBoard))
            /\ UNCHANGED errorMessage
       ELSE /\ errorMessage' = Some("error")
            /\ UNCHANGED <<todoTasks, progressTasks, doneTasks>>
    /\ isLoading' = IF c.net = "ok" THEN FALSE ELSE isLoading
    /\ newTaskTitle' = IF c.fn = "addTask" THEN <<>> ELSE newTaskTitle
    /\ calls' = Finish(c)
    /\ lastFetch' = IF c.net = "ok" THEN "ok" ELSE "failed"
    /\ event' = Ran(c.fn, "GET", c.net = "ok")
    /\ UNCHANGED <<serverVars, mounted, gestures>>

\* fetchTasks() from its await to its end, and then the rest of the function
\* that awaited it (addTask clears the input).
FetchTasksResume(c) ==
    /\ c.req = "GET" /\ Answered(c)
    /\ IF c.net = "ok"
       THEN /\ SetBoard(PushByStatus(c.data, EmptyBoard))
            /\ UNCHANGED errorMessage
       ELSE /\ errorMessage' = Some("error")
            /\ UNCHANGED <<todoTasks, progressTasks, doneTasks>>
    /\ isLoading' = IF isLoading THEN FALSE ELSE isLoading
    /\ newTaskTitle' = IF c.fn = "addTask" THEN <<>> ELSE newTaskTitle
    /\ calls' = Finish(c)
    /\ lastFetch' = IF c.net = "ok" THEN "ok" ELSE "failed"
    /\ event' = Ran(c.fn, "GET", c.net = "ok")
    /\ UNCHANGED <<serverVars, mounted, gestures>>

\* addTask() from its await: on success fetchTasks() begins, else the catch
AddTaskResume(c) ==
    /\ c.req = "POST" /\ Answered(c)
    /\ IF c.net = "ok"
       THEN /\ errorMessage' = FetchTasksBegin(errorMessage)
            /\ calls' = Continue(c, Request("addTask", "GET"))
       ELSE /\ errorMessage' = Some("error")
            /\ calls' = Finish(c)
    /\ event' = Ran("addTask", "POST", c.net = "ok")
    /\ UNCHANGED <<serverVars, lastFetch, todoTasks, progressTasks, doneTasks,
                   newTaskTitle, isLoading, mounted, gestures>>

\* mutant: deleteTask that takes the task off the board whatever the response
DeleteTaskResumeOptimistic(c) ==
    /\ c.req = "DELETE" /\ Answered(c)
    /\ SetBoard(SpliceFirst(Board, c.id, 1))
    /\ errorMessage' = IF c.net = "ok" THEN errorMessage ELSE Some("error")
    /\ calls' = Finish(c)
    /\ event' = Ran("deleteTask", "DELETE", c.net = "ok")
    /\ UNCHANGED <<serverVars, lastFetch, newTaskTitle, isLoading, mounted, gestures>>

\* deleteTask() from its await: on success the task is spliced out of the first
\* list that holds it, else the catch
DeleteTaskResume(c) ==
    /\ c.req = "DELETE" /\ Answered(c)
    /\ IF c.net = "ok"
       THEN /\ SetBoard(SpliceFirst(Board, c.id, 1))
            /\ UNCHANGED errorMessage
       ELSE /\ errorMessage' = Some("error")
            /\ UNCHANGED <<todoTasks, progressTasks, doneTasks>>
    /\ calls' = Finish(c)
    /\ event' = Ran("deleteTask", "DELETE", c.net = "ok")
    /\ UNCHANGED <<serverVars, lastFetch, newTaskTitle, isLoading, mounted, gestures>>

\* mutant: handleTaskMove that refetches in its catch block only
HandleTaskMoveResumeCatchOnly(c) ==
    /\ c.req = "PATCH" /\ Answered(c)
    /\ IF c.net = "ok"
       THEN /\ calls' = Finish(c)
            /\ UNCHANGED errorMessage
       ELSE /\ errorMessage' = FetchTasksBegin(Some("error"))
            /\ calls' = Continue(c, [Request("handleTaskMove", "GET") EXCEPT
                                        !.caught = TRUE])
    /\ event' = Ran("handleTaskMove", "PATCH", c.net = "ok")
    /\ UNCHANGED <<serverVars, lastFetch, todoTasks, progressTasks, doneTasks,
                   newTaskTitle, isLoading, mounted, gestures>>

\* handleTaskMove() from its await: the catch sets errorMessage on a failure,
\* and the finally block begins fetchTasks(), which sets errorMessage = null.
HandleTaskMoveResume(c) ==
    /\ c.req = "PATCH" /\ Answered(c)
    /\ LET caught == IF c.net = "ok" THEN errorMessage ELSE Some("error")
       IN errorMessage' = FetchTasksBegin(caught)
    /\ calls' = Continue(c, [Request("handleTaskMove", "GET") EXCEPT
                                !.caught = (c.net # "ok")])
    /\ event' = Ran("handleTaskMove", "PATCH", c.net = "ok")
    /\ UNCHANGED <<serverVars, lastFetch, todoTasks, progressTasks, doneTasks,
                   newTaskTitle, isLoading, mounted, gestures>>

ClientNext ==
    \/ Mount
    \/ \E text \in ShortTitles : TypeTitle(text)
    \/ AddTask
    \/ \E column \in TaskStatus, index \in 1..MaxTasks : DeleteTaskClick(column, index)
    \/ \E from \in TaskStatus, index \in 1..MaxTasks, to \in TaskStatus,
          place \in 1..(MaxTasks + 1) : HandleTaskMove(from, index, to, place)
    \/ \E c \in InProgress : ServeGet(c)
    \/ \E c \in InProgress : ServePost(c)
    \/ \E c \in InProgress : ServePatch(c)
    \/ \E c \in InProgress : ServeDelete(c)
    \/ \E c \in InProgress : NetError(c)
    \/ \E c \in InProgress : FetchTasksResume(c)
    \/ \E c \in InProgress : AddTaskResume(c)
    \/ \E c \in InProgress : DeleteTaskResume(c)
    \/ \E c \in InProgress : HandleTaskMoveResume(c)

ClientSpec == Init /\ [][ClientNext]_vars

\* ---------------------------------------------------------- FairClientSpec
\* The component is mounted, every request that was sent is answered or lost,
\* and the script resumes after every await that has settled.
Network ==
    \E c \in InProgress :
        ServeGet(c) \/ ServePost(c) \/ ServePatch(c) \/ ServeDelete(c)
            \/ (c.net = "sent" /\ NetError(c))
Resume ==
    \E c \in InProgress :
        FetchTasksResume(c) \/ AddTaskResume(c) \/ DeleteTaskResume(c)
            \/ HandleTaskMoveResume(c)

\* ClientNext with the smaller budget of user requests
FairClientNext ==
    \/ Mount
    \/ \E text \in ShortTitles : TypeTitle(text)
    \/ AddTask /\ gestures' <= MaxFairGestures
    \/ \E column \in TaskStatus, index \in 1..MaxTasks :
          DeleteTaskClick(column, index) /\ gestures' <= MaxFairGestures
    \/ \E from \in TaskStatus, index \in 1..MaxTasks, to \in TaskStatus,
          place \in 1..(MaxTasks + 1) :
          HandleTaskMove(from, index, to, place) /\ gestures' <= MaxFairGestures
    \/ Network
    \/ \E c \in InProgress : c.net # "sent" /\ NetError(c)
    \/ Resume

FairClientSpec ==
    /\ Init
    /\ [][FairClientNext]_vars
    /\ WF_vars(Mount) /\ WF_vars(Network) /\ WF_vars(Resume)

\* ------------------------------------------------------------ ServiceSpec
\* The service's calls interleaved at their awaits.  create, findAll and remove
\* each await one repository call; updateStatus awaits findOne and then save,
\* and other calls may run between the two.

\* updateStatus(id, status) up to the await of save(): findOne(id) has returned
\* or thrown, and task.status = status has run on the object it returned.
UpdateStatusFindOne(id, body) ==
    /\ IsUUID(id)
    /\ LET found == ServiceFindOne(rows, id)
           req == [NoRequest EXCEPT !.op = "updateTaskStatus", !.id = id,
                      !.status = body.status, !.called = TRUE]
       IN IF found.threw # ""
          THEN /\ last' = [req EXCEPT !.code = HttpError(found.threw)]
               /\ UNCHANGED pending
          ELSE /\ BagCardinality(pending) < MaxPending
               /\ pending' = pending (+) SetToBag({[id |-> id, status |-> body.status,
                                   task |-> [found.task EXCEPT !.status = body.status]]})
               /\ UNCHANGED last
    /\ UNCHANGED <<rows, now, live, clientVars>>

\* updateStatus from the await of save() to its return
UpdateStatusSave(p) ==
    /\ LET saved == RepoSave(rows, p.task, p.id)
           req == [NoRequest EXCEPT !.op = "updateTaskStatus", !.id = p.id,
                      !.status = p.status, !.called = TRUE]
           res == IF saved.ok THEN [req EXCEPT !.code = "OK", !.ret = p.task]
                  ELSE [req EXCEPT !.code = HttpError("QueryFailedError")]
       IN /\ rows' = saved.rows
          /\ last' = res
          /\ live' = IF p.id \in DOMAIN live THEN Learn(live, res) ELSE live
    /\ pending' = pending (-) SetToBag({p})
    /\ UNCHANGED <<now, clientVars>>

ServiceNext ==
    \/ \E body \in CreateBodies : CreateTask(body)
    \/ GetTasks
    \/ \E id \in ParamIds : DeleteTask(id)
    \/ \E id \in ParamIds, body \in UpdateBodies : UpdateStatusFindOne(id, body)
    \/ \E p \in BagToSet(pending) : UpdateStatusSave(p)

ServiceSpec == Init /\ [][ServiceNext]_vars

\* ====================================================== claims on the service
IsLive(i) == i \in DOMAIN rows /\ rows[i].deletedAt = 0
ListIds(l) == {l[i].id : i \in 1..Len(l)}

\* C1: a findAll that follows any sequence of create, updateStatus and remove
\* calls returns exactly the tasks that were created and not soft-deleted since:
\* each of them once, with its current status, and no soft-deleted task.
C1_FindAllReturnsLiveTasks ==
    last.op = "getTasks" =>
        /\ ListIds(last.list) = DOMAIN live
        /\ Len(last.list) = Cardinality(DOMAIN live)
        /\ \A i \in 1..Len(last.list) :
             /\ last.list[i].status = live[last.list[i].id]
             /\ last.list[i].deletedAt = 0

\* findAll has answered while one task is soft-deleted and a live one has moved
C1_Witness ==
    /\ last.op = "getTasks"
    /\ Len(last.list) > 0
    /\ last.list[1].status # DefaultStatus
    /\ \E i \in DOMAIN rows : rows[i].deletedAt # 0

\* C2: create(title) adds exactly one task, under an id no stored task has, with
\* the given title, status todo and no deletion mark; the task it returns is the
\* stored one; every task stored before is unchanged.  create returns for every
\* title the title column accepts.
C2_CreateAddsOneTodoTask ==
    [][\A body \in CreateBodies : CreateTask(body) =>
        /\ (IsDef(body.title) /\ Len(Get(body.title)) <= TitleColumnLength)
              => last'.code = "Created"
        /\ last'.code = "Created" =>
             \E id \in Ids \ DOMAIN rows :
                /\ DOMAIN rows' = DOMAIN rows \cup {id}
                /\ rows'[id] = [id |-> id, title |-> Get(body.title),
                                status |-> "todo", deletedAt |-> 0]
                /\ last'.ret = Hydrate(rows'[id])
                /\ last'.ret.status = Some("todo")
                /\ \A j \in DOMAIN rows : rows'[j] = rows[j]
        /\ last'.code # "Created" => rows' = rows]_vars

\* a create has returned beside an older task that is no longer in todo
C2_Witness ==
    /\ last.op = "createTask"
    /\ last.code = "Created"
    /\ \E j \in DOMAIN rows : j # Get(last.ret.id) /\ rows[j].status # "todo"

\* C3: updateStatus(id, s) on a live task returns for every current status and
\* every s of todo, progress, done (s equal to the current status and backward
\* moves included); the stored status is then s, the returned task carries s, and
\* no other task changes.
C3_UpdateStatusSetsAnyStatus ==
    [][\A id \in Ids, s \in TaskStatus :
        (IsLive(id) /\ UpdateTaskStatus(id, [status |-> Some(s)])) =>
            /\ last'.code = "OK"
            /\ rows'[id].status = s
            /\ last'.ret.id = Some(id)
            /\ last'.ret.status = Some(s)
            /\ DOMAIN rows' = DOMAIN rows
            /\ \A j \in DOMAIN rows \ {id} : rows'[j] = rows[j]]_vars

\* an update to todo has returned while another task stands in done
C3_Witness ==
    /\ last.op = "updateTaskStatus"
    /\ last.code = "OK"
    /\ last.status = Some("todo")
    /\ rows[last.id].status = "todo"
    /\ \E j \in DOMAIN rows : j # last.id /\ rows[j].status = "done"

C5_InvalidStatusRejectedByValidation ==
    /\ \A i \in DOMAIN rows : rows[i].status \in TaskStatus
    /\ (last.op = "updateTaskStatus" /\ ~UpdateTaskSchema([status |-> last.status]).success)
          => last.code # "OK"

\* C6: every stored title is non-empty and at most 255 characters, and a POST
\* whose title is missing, empty, only whitespace or longer than 255 characters
\* is rejected: it is not answered 201 Created and creates no task.
C6_InvalidTitleRejectedByValidation ==
    /\ \A i \in DOMAIN rows :
         Len(rows[i].title) >= SchemaMinTitle /\ Len(rows[i].title) <= SchemaMaxTitle
    /\ (/\ last.op = "createTask"
        /\ LET parsed == CreateTaskSchema([title |-> last.title])
           IN ~parsed.success \/ parsed.title = Some(<<>>))
          => last.code # "Created"

\* C7: updateStatus(id, s) and remove(id) with an id no task was ever created
\* under both end in Not Found and leave the table as it was.
C7_UnknownIdNotFound ==
    [][\A id \in Ids \ DOMAIN rows :
        /\ \A body \in UpdateBodies :
             UpdateTaskStatus(id, body) => (last'.code = "NotFound" /\ rows' = rows)
        /\ DeleteTask(id) => (last'.code = "NotFound" /\ rows' = rows)]_vars

\* a remove of an unknown id has been answered while the table holds a task
C7_Witness ==
    /\ last.op = "deleteTask"
    /\ last.code = "NotFound"
    /\ last.id \notin DOMAIN rows
    /\ DOMAIN rows # {}

\* C8: updateStatus(id, s) on a soft-deleted task, with no other call in
\* progress, ends in Not Found as for an unknown id, and the task's status and
\* deletion mark stay as they were.
C8_UpdateDeletedNotFound ==
    [][\A id \in DOMAIN rows, body \in UpdateBodies :
        (rows[id].deletedAt # 0 /\ UpdateTaskStatus(id, body)) =>
            /\ last'.code = "NotFound"
            /\ last'.ret = NoEntity
            /\ rows' = rows]_vars

\* an update of a soft-deleted task to another status has been answered
C8_Witness ==
    /\ last.op = "updateTaskStatus"
    /\ last.code = "NotFound"
    /\ last.id \in DOMAIN rows
    /\ rows[last.id].deletedAt # 0
    /\ IsDef(last.status)
    /\ Get(last.status) \in TaskStatus \ {rows[last.id].status}

\* ======================================================= claims on the client
Count(list, task) == Cardinality({i \in 1..Len(list) : list[i] = task})
Place(list, task) == CHOOSE i \in 1..Len(list) : list[i] = task
InOrderOf(list, response) ==
    \A i, j \in 1..Len(list) :
        i < j => Place(response, list[i]) < Place(response, list[j])

\* a fetchTasks of the function fn awaits its response
Refetching(cs, fn) ==
    \E g \in BagToSet(cs) : g.fn = fn /\ g.req = "GET" /\ g.net = "sent" /\ g.data = <<>>

\* C9: a fetchTasks that receives a successful response replaces the three
\* lists: afterwards they hold exactly the tasks of the response, each once, in
\* the list its status names and in no other, in the order of the response, and
\* nothing that the lists held before remains unless the response has it.
C9_FetchReplacesLists ==
    [][\A c \in InProgress :
        (c.req = "GET" /\ c.net = "ok" /\ FetchTasksResume(c)) =>
            /\ \A i \in 1..Len(c.data) :
                 \A column \in TaskStatus :
                    Count(Board[column]', c.data[i]) =
                        IF c.data[i].status = column THEN 1 ELSE 0
            /\ Len(todoTasks') + Len(progressTasks') + Len(doneTasks') = Len(c.data)
            /\ \A column \in TaskStatus :
                 /\ \A i \in 1..Len(Board[column]') :
                      Count(c.data, Board[column][i]') = 1
                 /\ InOrderOf(Board[column]', c.data)]_vars

\* a fetch has just filled two columns, one of them with two tasks or the
\* other with a task the server had moved
C9_Witness ==
    /\ event.step = "GET" /\ event.ok
    /\ Len(todoTasks) + Len(progressTasks) + Len(doneTasks) = MaxTasks
    /\ doneTasks # <<>>
    /\ Len(doneTasks) < MaxTasks

C11_BoardInSyncWhenQuiet ==
    (calls = EmptyBag /\ lastFetch = "ok" /\ errorMessage = {}) =>
        \A column \in TaskStatus :
            /\ ListIds(Board[column]) = {i \in LiveIds(rows) : rows[i].status = column}
            /\ Len(Board[column]) = Cardinality(ListIds(Board[column]))

\* C12: a remove(id) on a task that is already soft-deleted ends in Not Found
\* and leaves the table, that task's deletion mark included, as it was.
C12_RemoveDeletedNotFound ==
    [][\A id \in DOMAIN rows :
        (rows[id].deletedAt # 0 /\ DeleteTask(id)) =>
            /\ last'.code = "NotFound"
            /\ rows' = rows]_vars

\* C13: once a task is soft-deleted, no step of any call changes its stored
\* status or clears its deletion mark, also when calls interleave: the save of
\* an updateStatus whose findOne read the task before the remove included.
C13_SoftDeletedFrozen ==
    [][\A i \in DOMAIN rows :
        rows[i].deletedAt # 0 =>
            /\ rows'[i].status = rows[i].status
            /\ rows'[i].deletedAt # 0]_vars

\* C14: in every reachable state of the client no task id occurs more than
\* once in todoTasks, progressTasks and doneTasks taken together.
C14_NoDuplicateIds ==
    LET all == todoTasks \o progressTasks \o doneTasks
    IN \A i, j \in 1..Len(all) : all[i].id = all[j].id => i = j

\* the board shows every task, one of them in done, while as many calls as
\* the client may have are in progress
C14_Witness ==
    /\ Len(todoTasks) + Len(progressTasks) + Len(doneTasks) = MaxTasks
    /\ doneTasks # <<>>
    /\ BagCardinality(calls) = MaxCalls

Without(list, id) == SelectSeq(list, LAMBDA task : task.id # id)
Failed(call) == call.net \in {"notok", "error"}

\* C15: when the request of fetchTasks, addTask or deleteTask fails (a lost
\* message or a response that is not ok), the call returns with the three lists
\* as they were and errorMessage set; a failed addTask leaves newTaskTitle too.
\* A deleteTask that succeeds takes the deleted task, and nothing else, out of
\* the lists and keeps the order of the rest.
C15_FailedRequestKeepsBoard ==
    [][\A c \in InProgress :
        /\ (/\ c.req \in {"GET", "POST", "DELETE"}
            /\ Failed(c)
            /\ (FetchTasksResume(c) \/ AddTaskResume(c) \/ DeleteTaskResume(c))) =>
              /\ Board' = Board
              /\ errorMessage' # {}
              /\ calls' = Finish(c)
              /\ c.req = "POST" => newTaskTitle' = newTaskTitle
        /\ (c.req = "DELETE" /\ c.net = "ok" /\ DeleteTaskResume(c)) =>
              \A column \in TaskStatus : Board[column]' = Without(Board[column], c.id)]_vars

\* a deleteTask has failed while its column holds two tasks
C15_Witness ==
    /\ event = Ran("deleteTask", "DELETE", FALSE)
    /\ \E column \in TaskStatus : Len(Board[column]) = MaxTasks
    /\ errorMessage # {}

Copies(cs, call) == IF call \in BagToSet(cs) THEN CopiesIn(call, cs) ELSE 0
Sent(cs, cs2, req) ==
    {call \in BagToSet(cs2) :
        call.req = req /\ call.net = "sent" /\ Copies(cs2, call) > Copies(cs, call)}
SameTasks(l1, l2) ==
    Len(l1) = Len(l2) /\ \A i \in 1..Len(l1) : Count(l1, l1[i]) = Count(l2, l1[i])

\* C16: a drag that ends in the column it started in only reorders that column:
\* no request is sent and no fetchTasks starts, so the server's state,
\* errorMessage and isLoading are as before.  A drag to another column sends one
\* PATCH for the dragged task with the target column as status, and a PATCH is
\* sent by no other step.
C16_SameColumnDragIsReorder ==
    [][/\ \A from \in TaskStatus, index \in 1..MaxTasks, to \in TaskStatus,
            place \in 1..(MaxTasks + 1) :
            HandleTaskMove(from, index, to, place) =>
                IF from = to
                THEN /\ calls' = calls
                     /\ <<rows, now>>' = <<rows, now>>
                     /\ errorMessage' = errorMessage
                     /\ isLoading' = isLoading
                     /\ \A column \in TaskStatus : SameTasks(Board[column]', Board[column])
                ELSE /\ calls' = calls (+) SetToBag({[Request("handleTaskMove", "PATCH")
                                  EXCEPT !.id = Board[from][index].id, !.status = to]})
                     /\ <<rows, now>>' = <<rows, now>>
       /\ Sent(calls, calls', "PATCH") # {} =>
            \E from \in TaskStatus, index \in 1..MaxTasks, to \in TaskStatus,
               place \in 1..(MaxTasks + 1) :
                  from # to /\ HandleTaskMove(from, index, to, place)]_vars

\* a task has been dropped within its column, which holds two tasks, while a
\* call is in progress
C16_Witness ==
    /\ event = Ran("handleTaskMove", "reorder", TRUE)
    /\ \E column \in TaskStatus : Len(Board[column]) = MaxTasks
    /\ calls # EmptyBag

\* C17: when the PATCH of a handleTaskMove has failed, errorMessage is set
\* when that handleTaskMove completes, also when its fetchTasks succeeded.
C17_FailedMoveShowsError ==
    [][\A c \in InProgress :
        (c.fn = "handleTaskMove" /\ c.caught /\ FetchTasksResume(c)) =>
            errorMessage' # {}]_vars

\* C18: isLoading is true from the start until the fetchTasks of onMounted
\* completes and false from then on, whether that fetch succeeded or failed; no
\* later step sets it back to true; and when the component is mounted and the
\* network answers or fails, isLoading eventually becomes false for good.
C18_IsLoadingUntilFirstFetch ==
    /\ [](isLoading <=> lastFetch = "none")
    /\ [][/\ ~isLoading => ~isLoading'
          /\ isLoading' # isLoading =>
                \E c \in InProgress : c.fn = "fetchTasks" /\ FetchTasksResume(c)
          /\ \A c \in InProgress : FetchTasksResume(c) => ~isLoading']_vars
    /\ <>[](~isLoading)

\* the fetch of onMounted has failed and the loading indicator is gone
C18_Witness ==
    /\ event = Ran("fetchTasks", "GET", FALSE)
    /\ lastFetch = "failed"
    /\ ~isLoading
    /\ errorMessage # {}

====
